---- MODULE Spec2Model ----
(***************************************************************************)
(* OrderedMultiQueue (cartographer/sensor/internal/ordered_multi_queue.cc) *)
(* as a state machine.  The single caller thread is at pc = "idle" between *)
(* public operations; Add, MarkQueueAsFinished and Flush move it into the  *)
(* Dispatch loop, whose iterations are the steps taken at pc = "dispatch". *)
(* No public operation is enabled until the running one has returned.      *)
(* A failed CHECK aborts the process: pc = "fatal", and nothing follows.   *)
(***************************************************************************)
EXTENDS Integers, Sequences, FiniteSets, TLC

\* ------------------------------------------------------------------ bounds
MaxSensor == 2          \* trajectory j has the sensors 1..MaxSensor - j
MaxTime == 2            \* item timestamps are TimeMin..MaxTime
MaxQueued == 3          \* items held in all queues together
MaxLog == 3             \* items the logs of SpecLog hold

\* common::Time::min()
TimeMin == 0

Time == TimeMin..MaxTime

Trajectory == 0..(MaxSensor - 1)

\* QueueKey {trajectory_id, sensor_id}; sensor_id is the string's rank.
QueueKey == {k \in [trajectory_id : Trajectory, sensor_id : 1..MaxSensor] :
               k.trajectory_id + k.sensor_id <= MaxSensor}

\* A default-constructed QueueKey: the empty string, and an int nobody set.
DefaultQueueKey == [trajectory_id : Trajectory, sensor_id : {0}]

\* operator< of QueueKey: lexicographic on (trajectory_id, sensor_id).
KeyLess(a, b) ==
    \/ a.trajectory_id < b.trajectory_id
    \/ a.trajectory_id = b.trajectory_id /\ a.sensor_id < b.sensor_id

VARIABLES
    queues_,                            \* std::map<QueueKey, Queue>
    last_dispatched_time_,              \* common::Time
    blocker_,                           \* QueueKey
    common_start_time_per_trajectory_,  \* std::map<int, common::Time>
    pc,                                 \* where the caller thread is
    unfinished_queues,                  \* Flush's local vector, the part still to do
    call,                               \* the public operation running or last run
    outcome,                            \* how the latest step left the while loop's body
    callback,                           \* the callback invocation of the latest step, if any
    sunk,                               \* history: the latest item a callback got
    logging,                            \* whether this run keeps the two logs below
    pushed,                             \* log: per key, the times Push-ed to its stream record
    delivered,                          \* log: per key, the times its callback got
    returned,                           \* what the latest step returned to the caller, if a value
    registered_once,                    \* history: an AddQueue has succeeded
    resolved                            \* the trajectory the latest step cached a start time for

vars == <<queues_, last_dispatched_time_, blocker_,
          common_start_time_per_trajectory_, pc, unfinished_queues, call,
          outcome, callback, sunk, logging, pushed, delivered,
          returned, registered_once, resolved>>

\* ------------------------------------------------- common::BlockingQueue
Push(queue, data) == Append(queue, data)
Pop(queue) == Tail(queue)
Size(queue) == Len(queue)
\* Peek returns nullptr on an empty queue: <<>> here, <<front>> otherwise.
Peek(queue) == IF queue = <<>> THEN <<>> ELSE <<Head(queue)>>
\* Data::GetTime() of the pointer Peek returned (a null pointer has none).
GetTime(ptr) == ptr[1].time

\* ------------------------------------------------------------ std::map
Erase(q, key) == [k \in DOMAIN q \ {key} |-> q[k]]

RECURSIVE InKeyOrder(_)
InKeyOrder(S) ==
    IF S = {} THEN <<>>
    ELSE LET first == CHOOSE k \in S : \A o \in S \ {k} : KeyLess(k, o)
         IN  <<first>> \o InKeyOrder(S \ {first})

\* Max that takes the smaller.
Min(a, b) == IF a < b THEN a ELSE b

Max(a, b) == IF a < b THEN b ELSE a

\* ------------------------------------------------------------- Dispatch
\* IsOlder with <= for <: among equal fronts the last stream wins.
IsOlderOrEqual(next_data, data) ==
    next_data = <<>> \/ GetTime(data) <= GetTime(next_data)

\* line 139: does `data` replace the candidate `next_data`?
IsOlder(next_data, data) ==
    next_data = <<>> \/ GetTime(data) < GetTime(next_data)

\* CheckSorted without the CHECK.
NoCheckSorted(last, next_data) == TRUE

\* line 145: CHECK_LE(last_dispatched_time_, next_data->GetTime())
CheckSorted(last, next_data) == last <= GetTime(next_data)

\* IsFinished that takes no stream for finished.
NoneIsFinished(Queue) == FALSE

\* IsFinished that takes every stream for finished.
AnyIsFinished(Queue) == TRUE

\* line 129: if (it->second.finished)
IsFinished(Queue) == Queue.finished

\* lines 122-149: the for loop over queues_, from the iterator at Head(keys).
\* q is queues_ as the erasures so far left it, next the candidate's key
\* (<<>> while next_data is nullptr).
RECURSIVE Scan(_, _, _, _)
Scan(keys, q, next, last) ==
    IF keys = <<>> THEN [status |-> "end", queues |-> q, next |-> next]
    ELSE
      LET key == Head(keys)
          data == Peek(q[key].queue)
      IN  IF data = <<>>
          THEN IF IsFinished(q[key])
               THEN Scan(Tail(keys), Erase(q, key), next, last)
               ELSE [status |-> "blocked", queues |-> q, next |-> <<key>>]
          ELSE
            LET next_data == IF next = <<>> THEN <<>> ELSE Peek(q[next[1]].queue)
                chosen == IF IsOlder(next_data, data) THEN <<key>> ELSE next
            IN  IF CheckSorted(last, Peek(q[chosen[1]].queue))
                THEN Scan(Tail(keys), q, chosen, last)
                ELSE [status |-> "fatal", queues |-> q, next |-> <<key>>]

\* Inserted for an emplace that overwrites.
AlwaysInserted(cache, trajectory_id) == TRUE

\* lines 200-201: emplace(...).second, true if the key was not in the map
Inserted(cache, trajectory_id) == trajectory_id \notin DOMAIN cache

\* lines 199-214: the cache after GetCommonStartTime(trajectory_id) on q.
GetCommonStartTime(cache, q, trajectory_id) ==
    IF ~Inserted(cache, trajectory_id) THEN cache
    ELSE
      LET ofTrajectory ==
            InKeyOrder({k \in DOMAIN q : k.trajectory_id = trajectory_id})
          F[i \in 0..Len(ofTrajectory)] ==
            IF i = 0 THEN TimeMin
            ELSE Max(F[i - 1], GetTime(Peek(q[ofTrajectory[i]].queue)))
      IN  [t \in DOMAIN cache \cup {trajectory_id} |->
             IF t = trajectory_id THEN F[Len(ofTrajectory)] ELSE cache[t]]

\* line 162
BeyondCommonStart(time, common_start_time) == time >= common_start_time

\* TooShortToDecide that takes every queue for deep.
NeverTooShort(queue) == FALSE

\* line 166
TooShortToDecide(queue) == Size(queue) < 2

\* MustWait that never waits.
NeverWait(next_queue) == FALSE

\* MustWait without the test of finished.
AlwaysWait(next_queue) == TRUE

\* line 167
MustWait(next_queue) == ~next_queue.finished

\* Popped when the callback is given a copy of the front.
NotPopped(q, key) == q

\* lines 165, 173, 178: queues_ after next_queue->queue.Pop()
Popped(q, key) == [q EXCEPT ![key].queue = Pop(@)]

\* CannotMakeProgress without the assignment.
KeepBlocker(blocker, queue_key) == blocker

\* lines 189-197: blocker_ after CannotMakeProgress(queue_key)
CannotMakeProgress(blocker, queue_key) == queue_key

\* FirstToDispatch with >= for >.
FirstToDispatchOrEqual(after, common_start_time) ==
    GetTime(Peek(after)) >= common_start_time

\* line 179: the item behind the popped one is beyond the common start time
FirstToDispatch(after, common_start_time) ==
    GetTime(Peek(after)) > common_start_time

\* What one pass of the while (true) body does to the state it reads:
\* the scan, then lines 151-183 on the candidate.
Iteration(q0, last, cache0) ==
    LET s == Scan(InKeyOrder(DOMAIN q0), q0, <<>>, last)
        q == s.queues
    IN  IF s.status # "end"
        THEN [kind |-> s.status, key |-> s.next, queues |-> q, cache |-> cache0,
              last |-> last, popped |-> <<>>]
        ELSE IF s.next = <<>>
        THEN [kind |-> IF q = <<>> THEN "empty" ELSE "fatal", key |-> <<>>,
              queues |-> q, cache |-> cache0, last |-> last, popped |-> <<>>]
        ELSE
          LET key == s.next[1]
              next_queue == q[key]
              next_data == Peek(next_queue.queue)
              cache == GetCommonStartTime(cache0, q, key.trajectory_id)
              common_start_time == cache[key.trajectory_id]
              qPopped == Popped(q, key)
              after == qPopped[key].queue
          IN  IF BeyondCommonStart(GetTime(next_data), common_start_time)
              THEN [kind |-> "dispatch", key |-> s.next, queues |-> qPopped,
                    cache |-> cache, last |-> GetTime(next_data),
                    popped |-> next_data]
              ELSE IF TooShortToDecide(next_queue.queue)
              THEN IF MustWait(next_queue)
                   THEN [kind |-> "blocked", key |-> s.next, queues |-> q,
                         cache |-> cache, last |-> last, popped |-> <<>>]
                   ELSE [kind |-> "dispatch", key |-> s.next, queues |-> qPopped,
                         cache |-> cache, last |-> GetTime(next_data),
                         popped |-> next_data]
              ELSE IF FirstToDispatch(after, common_start_time)
              THEN [kind |-> "dispatch", key |-> s.next, queues |-> qPopped,
                    cache |-> cache, last |-> GetTime(next_data),
                    popped |-> next_data]
              ELSE [kind |-> "drop", key |-> s.next, queues |-> qPopped,
                    cache |-> cache, last |-> last, popped |-> next_data]

\* ---------------------------------------------------------------- state
\* call: the operation, whether its key was registered and whether any queue
\* held an item when it was called, and for Add whether the item was older
\* than last_dispatched_time_ (late) or than the item Push-ed before it on the
\* same stream record (unsorted; the log tells).
NoCall == [name |-> "none", registered |-> FALSE, pending |-> FALSE,
           late |-> FALSE, unsorted |-> FALSE]

NoLog == [k \in QueueKey |-> <<>>]

Init ==
    /\ queues_ = <<>>
    /\ last_dispatched_time_ = TimeMin
    /\ blocker_ \in DefaultQueueKey
    /\ common_start_time_per_trajectory_ = <<>>
    /\ pc = "idle"
    /\ unfinished_queues = <<>>
    /\ call = NoCall
    /\ outcome = "none"
    /\ callback = <<>>
    /\ sunk = <<>>
    /\ logging = FALSE
    /\ pushed = NoLog
    /\ delivered = NoLog
    /\ returned = <<>>
    /\ registered_once = FALSE
    /\ resolved = <<>>

\* The same machine, keeping the logs; its runs hold at most MaxLog items.
InitLog ==
    /\ queues_ = <<>>
    /\ last_dispatched_time_ = TimeMin
    /\ blocker_ \in DefaultQueueKey
    /\ common_start_time_per_trajectory_ = <<>>
    /\ pc = "idle"
    /\ unfinished_queues = <<>>
    /\ call = NoCall
    /\ outcome = "none"
    /\ callback = <<>>
    /\ sunk = <<>>
    /\ logging = TRUE
    /\ pushed = NoLog
    /\ delivered = NoLog
    /\ returned = <<>>
    /\ registered_once = FALSE
    /\ resolved = <<>>

\* The measures the bounds MaxLog and MaxQueued are put on.
RECURSIVE LenOver(_, _)
LenOver(log, keys) ==
    IF keys = {} THEN 0
    ELSE LET k == CHOOSE k \in keys : TRUE
         IN  Len(log[k]) + LenOver(log, keys \ {k})

Logged == LenOver(pushed, QueueKey)

RECURSIVE SizeOver(_, _)
SizeOver(q, keys) ==
    IF keys = {} THEN 0
    ELSE LET k == CHOOSE k \in keys : TRUE
         IN  Size(q[k].queue) + SizeOver(q, keys \ {k})

Queued(q) == SizeOver(q, DOMAIN q)

\* Where Dispatch returns to: the for loop of Flush, or the caller.
Return == IF unfinished_queues = <<>> THEN "idle" ELSE "flush"

\* lines 56-59
AddQueue(queue_key) ==
    /\ pc = "idle"
    /\ call' = [NoCall EXCEPT !.name = "AddQueue",
                              !.registered = queue_key \in DOMAIN queues_,
                              !.pending = Queued(queues_) > 0]
    /\ IF queue_key \in DOMAIN queues_
       THEN /\ pc' = "fatal"
            /\ UNCHANGED <<queues_, pushed, delivered, registered_once>>
       ELSE /\ queues_' = queues_ @@ (queue_key :> [queue |-> <<>>, finished |-> FALSE])
            /\ registered_once' = TRUE
            /\ pushed' = [pushed EXCEPT ![queue_key] = <<>>]
            /\ delivered' = [delivered EXCEPT ![queue_key] = <<>>]
            /\ pc' = "idle"
    /\ outcome' = "none"
    /\ returned' = <<>>
    /\ resolved' = <<>>
    /\ callback' = <<>>
    /\ UNCHANGED <<last_dispatched_time_, blocker_, common_start_time_per_trajectory_,
                   unfinished_queues, sunk, logging>>

\* lines 63-66: the CHECKs of MarkQueueAsFinished pass
CanFinish(q, queue_key) == queue_key \in DOMAIN q /\ ~q[queue_key].finished

\* lines 62-69, up to the call of Dispatch
MarkQueueAsFinished(queue_key) ==
    IF CanFinish(queues_, queue_key)
    THEN /\ queues_' = [queues_ EXCEPT ![queue_key].finished = TRUE]
         /\ pc' = "dispatch"
    ELSE /\ pc' = "fatal"
         /\ UNCHANGED queues_

MarkFinished(queue_key) ==
    /\ pc = "idle"
    /\ call' = [NoCall EXCEPT !.name = "MarkQueueAsFinished",
                              !.registered = queue_key \in DOMAIN queues_,
                              !.pending = Queued(queues_) > 0]
    /\ MarkQueueAsFinished(queue_key)
    /\ outcome' = "none"
    /\ returned' = <<>>
    /\ resolved' = <<>>
    /\ callback' = <<>>
    /\ UNCHANGED <<last_dispatched_time_, blocker_, common_start_time_per_trajectory_,
                   unfinished_queues, sunk, logging, pushed, delivered,
                   registered_once>>

\* Receive through queues_[queue_key], which inserts a key it does not find.
ReceiveAny(q, queue_key, data) ==
    IF queue_key \notin DOMAIN q
    THEN q @@ (queue_key :> [queue |-> <<data>>, finished |-> FALSE])
    ELSE [q EXCEPT ![queue_key].queue = Push(@, data)]

\* lines 74-83: queues_ after the find and, if the key is found, the Push
Receive(q, queue_key, data) ==
    IF queue_key \notin DOMAIN q THEN q
    ELSE [q EXCEPT ![queue_key].queue = Push(@, data)]

\* lines 72-87, up to the call of Dispatch
Add(queue_key, time) ==
    /\ pc = "idle"
    /\ queue_key \in DOMAIN queues_ =>
         Queued(queues_) < MaxQueued /\ (logging => Logged < MaxLog)
    /\ call' = [name |-> "Add",
                registered |-> queue_key \in DOMAIN queues_,
                pending |-> Queued(queues_) > 0,
                late |-> time < last_dispatched_time_,
                unsorted |-> /\ queue_key \in DOMAIN queues_
                             /\ pushed[queue_key] # <<>>
                             /\ time < pushed[queue_key][Len(pushed[queue_key])]]
    /\ queues_' = Receive(queues_, queue_key, [time |-> time])
    /\ pc' = IF queue_key \in DOMAIN queues_ THEN "dispatch" ELSE "idle"
    /\ pushed' = IF logging /\ queue_key \in DOMAIN queues_
                  THEN [pushed EXCEPT ![queue_key] = Append(@, time)]
                  ELSE pushed
    /\ outcome' = "none"
    /\ returned' = <<>>
    /\ resolved' = <<>>
    /\ callback' = <<>>
    /\ UNCHANGED <<last_dispatched_time_, blocker_, common_start_time_per_trajectory_,
                   unfinished_queues, sunk, logging, delivered, registered_once>>

\* Unfinished that collects the finished queues too.
UnfinishedOrNot(q) == InKeyOrder(DOMAIN q)

\* Unfinished that misses the last unfinished queue.
UnfinishedButLast(q) ==
    LET all == InKeyOrder({k \in DOMAIN q : ~q[k].finished})
    IN  IF all = <<>> THEN <<>> ELSE SubSeq(all, 1, Len(all) - 1)

\* lines 92-97
Unfinished(q) == InKeyOrder({k \in DOMAIN q : ~q[k].finished})

\* lines 90-98: collect the unfinished queues
Flush ==
    /\ pc = "idle"
    /\ call' = [NoCall EXCEPT !.name = "Flush", !.pending = Queued(queues_) > 0]
    /\ unfinished_queues' = Unfinished(queues_)
    /\ pc' = IF Unfinished(queues_) = <<>> THEN "idle" ELSE "flush"
    /\ outcome' = "none"
    /\ returned' = <<>>
    /\ resolved' = <<>>
    /\ callback' = <<>>
    /\ UNCHANGED <<queues_, last_dispatched_time_, blocker_,
                   common_start_time_per_trajectory_, sunk, logging, pushed, delivered,
                   registered_once>>

\* lines 99-101: one pass of the for loop, up to the call of Dispatch
FlushNext ==
    /\ pc = "flush"
    /\ unfinished_queues' = Tail(unfinished_queues)
    /\ MarkQueueAsFinished(Head(unfinished_queues))
    /\ outcome' = "none"
    /\ returned' = <<>>
    /\ resolved' = <<>>
    /\ callback' = <<>>
    /\ UNCHANGED <<last_dispatched_time_, blocker_, common_start_time_per_trajectory_,
                   call, sunk, logging, pushed, delivered, registered_once>>

\* line 165, 173, 181: next_queue->callback(data), with what held at the call
\* behind: the item left at the front; previous: the item the latest
\* invocation before this one got.
Invocation(key, data, next_queue, after, previous) ==
    [key |-> key, data |-> data, behind |-> Peek(after),
     finished |-> next_queue.finished, previous |-> previous]

\* lines 114-185: one pass of the while (true) body
Dispatch ==
    /\ pc = "dispatch"
    /\ LET r == Iteration(queues_, last_dispatched_time_,
                          common_start_time_per_trajectory_)
       IN  /\ queues_' = r.queues
           /\ last_dispatched_time_' = r.last
           /\ common_start_time_per_trajectory_' = r.cache
           /\ blocker_' = IF r.kind = "blocked"
                          THEN CannotMakeProgress(blocker_, r.key[1]) ELSE blocker_
           /\ pc' = CASE r.kind = "fatal" -> "fatal"
                      [] r.kind \in {"blocked", "empty"} -> Return
                      [] OTHER -> "dispatch"
           /\ outcome' = r.kind
           /\ callback' = IF r.kind = "dispatch"
                          THEN <<Invocation(r.key[1], r.popped[1], queues_[r.key[1]],
                                            r.queues[r.key[1]].queue, sunk)>>
                          ELSE <<>>
           /\ sunk' = IF r.kind = "dispatch" THEN <<r.popped[1]>> ELSE sunk
           /\ delivered' = IF logging /\ r.kind = "dispatch"
                           THEN [delivered EXCEPT ![r.key[1]] = Append(@, r.popped[1].time)]
                           ELSE delivered
           /\ returned' = <<>>
           /\ resolved' = IF DOMAIN r.cache = DOMAIN common_start_time_per_trajectory_
                          THEN <<>> ELSE <<r.key[1].trajectory_id>>
    /\ UNCHANGED <<unfinished_queues, call, logging, pushed, registered_once>>

\* GetBlocker without the CHECK.
NoCheckNotEmpty(q) == TRUE

\* line 105: CHECK(!queues_.empty())
CheckNotEmpty(q) == q # <<>>

\* lines 104-107
GetBlocker ==
    /\ pc = "idle"
    /\ call' = [NoCall EXCEPT !.name = "GetBlocker", !.pending = Queued(queues_) > 0]
    /\ IF CheckNotEmpty(queues_)
       THEN /\ returned' = <<blocker_>>
            /\ pc' = "idle"
       ELSE /\ returned' = <<>>
            /\ pc' = "fatal"
    /\ resolved' = <<>>
    /\ outcome' = "none"
    /\ callback' = <<>>
    /\ UNCHANGED <<queues_, last_dispatched_time_, blocker_,
                   common_start_time_per_trajectory_, unfinished_queues, sunk,
                   logging, pushed, delivered, registered_once>>

Next ==
    \/ \E key \in QueueKey : AddQueue(key)
    \/ \E key \in QueueKey : MarkFinished(key)
    \/ \E key \in QueueKey, time \in Time : Add(key, time)
    \/ Flush
    \/ FlushNext
    \/ Dispatch
    \/ GetBlocker

Spec == Init /\ [][Next]_vars

SpecLog == InitLog /\ [][Next]_vars

\* The caller keeps to the rules: an item for a registered stream is not
\* older than the one pushed before it on that stream record, and the stream
\* has not been marked finished.
InOrder(queue_key, time) ==
    queue_key \in DOMAIN queues_ =>
        /\ ~queues_[queue_key].finished
        /\ pushed[queue_key] # <<>> =>
              pushed[queue_key][Len(pushed[queue_key])] <= time

AddInOrder(queue_key, time) == InOrder(queue_key, time) /\ Add(queue_key, time)

NextInOrder ==
    \/ \E key \in QueueKey : AddQueue(key)
    \/ \E key \in QueueKey : MarkFinished(key)
    \/ \E key \in QueueKey, time \in Time : AddInOrder(key, time)
    \/ Flush
    \/ FlushNext
    \/ Dispatch
    \/ GetBlocker

\* The machine with the logs, driven by a caller that keeps to the rules.
SpecInOrder == InitLog /\ [][NextInOrder]_vars

\* --------------------------------------------------------------- claims
Registered == DOMAIN queues_

\* The common start time of the trajectory of `key`, once it is resolved.
CommonStart(key) == common_start_time_per_trajectory_[key.trajectory_id]

\* C1: the timestamps the callbacks get never decrease from one invocation
\* to the next, whatever the stream, and last_dispatched_time_ starts at
\* Time::min() and never decreases.
C1_MonotoneOutput ==
    /\ last_dispatched_time_ = TimeMin
    /\ [][/\ last_dispatched_time_ <= last_dispatched_time_'
          /\ callback' # <<>> /\ sunk # <<>> =>
               sunk[1].time <= callback'[1].data.time]_vars

\* A callback got an item strictly newer than the one invoked before it.
C1_Witness ==
    /\ callback # <<>>
    /\ callback[1].previous # <<>>
    /\ callback[1].previous[1].time < callback[1].data.time
    /\ last_dispatched_time_ = callback[1].data.time

RECURSIVE IsSubsequence(_, _)
IsSubsequence(a, b) ==
    IF a = <<>> THEN TRUE
    ELSE IF b = <<>> THEN FALSE
    ELSE IF Head(a) = Head(b) THEN IsSubsequence(Tail(a), Tail(b))
    ELSE IsSubsequence(a, Tail(b))

\* The items of the stream record of `key` that left its FIFO.
Left(key) ==
    IF key \in Registered
    THEN SubSeq(pushed[key], 1, Len(pushed[key]) - Size(queues_[key].queue))
    ELSE pushed[key]

\* C2: for every stream, what its callback got is a subsequence of what was
\* Add-ed to that stream: nothing it was not given, nothing twice, and in the
\* order of the pushes.  (Only items that left the FIFO count as given.)
C2_DeliveredIsSubsequence ==
    \A key \in QueueKey : IsSubsequence(delivered[key], Left(key))

\* A stream was erased after its callback got some, not all, of its items.
C2_Witness ==
    \E key \in QueueKey :
        /\ key \notin Registered
        /\ delivered[key] # <<>>
        /\ Len(delivered[key]) < Len(pushed[key])

\* C3: when Flush has returned, no stream record is left, and so no item
\* is queued.
C3_FlushErasesAll ==
    pc = "idle" /\ call.name = "Flush" => queues_ = <<>> /\ Queued(queues_) = 0

\* Flush returned, having been called with items pending, and its last
\* Dispatch ended on the empty collection.
C3_Witness ==
    /\ pc = "idle"
    /\ call.name = "Flush"
    /\ call.pending
    /\ outcome = "empty"
    /\ queues_ = <<>>

\* C4 as claimed: when Dispatch halts with streams registered, blocker_ is
\* a stream with an empty FIFO that is not finished.
C4_BlockerIsEmptyUnfinished ==
    outcome = "blocked" /\ queues_ # <<>> =>
        /\ blocker_ \in Registered
        /\ queues_[blocker_].queue = <<>>
        /\ ~queues_[blocker_].finished

\* C4, amended: when Dispatch halts with streams registered, blocker_ is an
\* unfinished stream whose FIFO is empty, or holds exactly one item, older
\* than the common start time of its trajectory.
C4_BlockerIsUnfinished ==
    outcome = "blocked" /\ queues_ # <<>> =>
        /\ blocker_ \in Registered
        /\ ~queues_[blocker_].finished
        /\ \/ queues_[blocker_].queue = <<>>
           \/ /\ Size(queues_[blocker_].queue) = 1
              /\ blocker_.trajectory_id \in DOMAIN common_start_time_per_trajectory_
              /\ GetTime(Peek(queues_[blocker_].queue)) < CommonStart(blocker_)

\* Dispatch halted on a stream that holds an item.
C4_Witness ==
    /\ outcome = "blocked"
    /\ blocker_ \in Registered
    /\ Size(queues_[blocker_].queue) = 1

\* C5 as claimed: an item a callback gets is not older than the common
\* start time of its trajectory, or the item behind it is strictly newer
\* than that time.
C5_BeyondStartOrStraddling ==
    callback # <<>> =>
        \/ callback[1].data.time >= CommonStart(callback[1].key)
        \/ /\ callback[1].behind # <<>>
           /\ GetTime(callback[1].behind) > CommonStart(callback[1].key)

\* C5, amended: ... or it is the only item of a finished stream.
C5_BeyondStartOrStraddlingOrLast ==
    callback # <<>> =>
        \/ callback[1].data.time >= CommonStart(callback[1].key)
        \/ /\ callback[1].behind # <<>>
           /\ GetTime(callback[1].behind) > CommonStart(callback[1].key)
        \/ /\ callback[1].behind = <<>>
           /\ callback[1].finished

\* The callback of a finished stream got its last item, older than the
\* common start time.
C5_Witness ==
    /\ callback # <<>>
    /\ callback[1].data.time < CommonStart(callback[1].key)
    /\ callback[1].behind = <<>>
    /\ callback[1].finished

\* C6: an Add of an item older than the one Add-ed before it to the same
\* stream record does not return.
C6_UnsortedAddIsFatal ==
    ~(pc = "idle" /\ call.name = "Add" /\ call.registered /\ call.unsorted)

\* C7: an Add to a registered stream of an item older than
\* last_dispatched_time_ does not return.
C7_LateAddIsFatal ==
    ~(pc = "idle" /\ call.name = "Add" /\ call.registered /\ call.late)

\* C8: an Add with a key that is not registered changes nothing: no queue,
\* no flag, no time, no blocker, no cache entry; no callback is invoked, no
\* Dispatch runs and no CHECK fails.
C8_UnknownKeyChangesNothing ==
    [][call'.name = "Add" /\ ~call'.registered /\ pc = "idle" =>
         /\ UNCHANGED <<queues_, last_dispatched_time_, blocker_,
                        common_start_time_per_trajectory_, unfinished_queues,
                        sunk, pushed, delivered>>
         /\ pc' = "idle"
         /\ callback' = <<>>]_vars

\* An Add was ignored while streams were registered and items queued.
C8_Witness ==
    /\ pc = "idle"
    /\ call.name = "Add"
    /\ ~call.registered
    /\ call.pending

\* The streams whose front is the oldest of all fronts.
Oldest(q) ==
    {k \in DOMAIN q :
        /\ q[k].queue # <<>>
        /\ \A o \in DOMAIN q :
             q[o].queue # <<>> => Head(q[k].queue).time <= Head(q[o].queue).time}

\* C9: the item an iteration of Dispatch takes (to deliver or to drop) is
\* the front of the first stream, in key order, among those whose front is
\* the oldest.
C9_TakesFirstOldest ==
    [][pc = "dispatch" /\ Queued(queues_') < Queued(queues_) =>
         \A key \in DOMAIN queues_' :
            queues_'[key].queue # queues_[key].queue =>
               /\ key \in Oldest(queues_)
               /\ \A o \in Oldest(queues_) \ {key} : KeyLess(key, o)
               /\ queues_'[key].queue = Tail(queues_[key].queue)]_vars

\* A callback got an item while a later stream had an item of the same
\* time at its front.
C9_Witness ==
    /\ callback # <<>>
    /\ \E o \in Registered :
         /\ KeyLess(callback[1].key, o)
         /\ queues_[o].queue # <<>>
         /\ Head(queues_[o].queue).time = callback[1].data.time

\* C10: between public operations, if every registered stream is finished
\* then no stream holds an item: indeed no stream is registered.
C10_AllFinishedMeansEmpty ==
    pc = "idle" /\ (\A key \in Registered : queues_[key].finished) =>
        /\ \A key \in Registered : queues_[key].queue = <<>>
        /\ queues_ = <<>>

\* The last unfinished stream was marked finished while items were queued,
\* and the operation has returned.
C10_Witness ==
    /\ pc = "idle"
    /\ call.name = "MarkQueueAsFinished"
    /\ call.pending
    /\ \A key \in Registered : queues_[key].finished

\* C11 as claimed: once an AddQueue has succeeded, GetBlocker never fails.
C11_GetBlockerFatalOnlyBeforeFirstQueue ==
    call.name = "GetBlocker" /\ registered_once => pc # "fatal"

\* C11, amended: GetBlocker fails exactly when no stream is registered at
\* the call (none was ever, or all have been erased); otherwise it returns
\* blocker_ and changes nothing else.
C11_GetBlockerFatalIffNoQueue ==
    /\ [](call.name = "GetBlocker" =>
            /\ pc = "fatal" <=> queues_ = <<>>
            /\ pc = "idle" => returned = <<blocker_>>)
    /\ [][call'.name = "GetBlocker" /\ pc = "idle" =>
            UNCHANGED <<queues_, last_dispatched_time_, blocker_,
                        common_start_time_per_trajectory_>>]_vars

\* GetBlocker failed after every stream had been finished and erased.
C11_Witness ==
    /\ call.name = "GetBlocker"
    /\ pc = "fatal"
    /\ registered_once
    /\ sunk # <<>>

\* C12: a stream record leaves queues_ only in a step of Dispatch, and only
\* if before that step it was finished and its FIFO was empty.
C12_ErasedOnlyFinishedAndEmpty ==
    [][\A key \in Registered \ DOMAIN queues_' :
          /\ pc = "dispatch"
          /\ queues_[key].finished
          /\ queues_[key].queue = <<>>]_vars

\* MarkQueueAsFinished has returned, its dispatch halted on another stream,
\* and the stream it finished is gone: no finished stream is left.
C12_Witness ==
    /\ pc = "idle"
    /\ call.name = "MarkQueueAsFinished"
    /\ outcome = "blocked"
    /\ queues_ # <<>>
    /\ \A key \in Registered : ~queues_[key].finished

\* The greatest element of a non-empty set of times.
Greatest(S) == CHOOSE m \in S : \A x \in S : x <= m

\* The streams of trajectory t that a Dispatch step leaves registered, as
\* they were before the step popped anything.
OfTrajectoryAtResolve(t) ==
    {key \in Registered \cap DOMAIN queues_' : key.trajectory_id = t}

\* C13: in the step that caches the common start time of a trajectory, the
\* value is the greatest front time, at that step, over the registered
\* streams of that trajectory.
C13_FirstResolveIsMaxOfHeads ==
    [][\A t \in DOMAIN common_start_time_per_trajectory_' \
              DOMAIN common_start_time_per_trajectory_ :
          /\ OfTrajectoryAtResolve(t) # {}
          /\ \A key \in OfTrajectoryAtResolve(t) : queues_[key].queue # <<>>
          /\ common_start_time_per_trajectory_'[t] =
               Greatest({Head(queues_[key].queue).time :
                           key \in OfTrajectoryAtResolve(t)})]_vars

\* A start time was just cached from two streams of the trajectory with
\* different fronts; the step popped nothing, so the fronts are still there.
C13_Witness ==
    /\ resolved # <<>>
    /\ outcome = "blocked"
    /\ \E a, b \in Registered :
          /\ a.trajectory_id = resolved[1] /\ b.trajectory_id = resolved[1]
          /\ queues_[a].queue # <<>> /\ queues_[b].queue # <<>>
          /\ Head(queues_[a].queue).time < Head(queues_[b].queue).time
          /\ common_start_time_per_trajectory_[resolved[1]] =
               Head(queues_[b].queue).time

\* C14: an entry of the common-start cache is never removed and never
\* changes its value, whatever step is taken.
C14_CommonStartNeverChanges ==
    [][\A t \in DOMAIN common_start_time_per_trajectory_ :
          /\ t \in DOMAIN common_start_time_per_trajectory_'
          /\ common_start_time_per_trajectory_'[t] =
               common_start_time_per_trajectory_[t]]_vars

\* AddQueue has just registered the only stream there is, on a trajectory
\* that has a cached start time: the streams it was computed from are gone.
C14_Witness ==
    /\ pc = "idle"
    /\ call.name = "AddQueue"
    /\ \E key \in Registered :
          /\ Registered = {key}
          /\ key.trajectory_id \in DOMAIN common_start_time_per_trajectory_

\* The blocker a halting Dispatch step records is registered and unfinished.
BlockerIsUnfinished ==
    outcome' = "blocked" =>
        blocker_' \in DOMAIN queues_' /\ ~queues_'[blocker_'].finished

\* The Dispatch step took the front of `key` off its FIFO.
PoppedIn(key) ==
    key \in DOMAIN queues_' /\ queues_'[key].queue = Tail(queues_[key].queue)

\* C15 as claimed: the blocker of a halting iteration is unfinished, and in
\* every iteration (that fails no CHECK) a finished stream whose front is
\* the oldest of all fronts loses that front.
C15_FinishedOldestIsPopped ==
    [][pc = "dispatch" /\ outcome' # "fatal" =>
          /\ BlockerIsUnfinished
          /\ \A key \in Oldest(queues_) :
                queues_[key].finished => PoppedIn(key)]_vars

\* The scan of the Dispatch step meets a stream it halts on.
SomeEmptyUnfinished ==
    \E key \in Registered : queues_[key].queue = <<>> /\ ~queues_[key].finished

\* C15, amended: the blocker of a halting iteration is unfinished, and a
\* finished stream loses its front in every iteration in which no stream is
\* empty and unfinished and it is the first, in key order, of the streams
\* with the oldest front.
C15_FinishedCandidateIsPopped ==
    [][pc = "dispatch" /\ outcome' # "fatal" =>
          /\ BlockerIsUnfinished
          /\ \A key \in Oldest(queues_) :
                /\ queues_[key].finished
                /\ ~SomeEmptyUnfinished
                /\ \A o \in Oldest(queues_) \ {key} : KeyLess(key, o)
                => PoppedIn(key)]_vars

\* A finished stream was the candidate and its front was delivered, while
\* an unfinished stream held a front of the same time.
C15_Witness ==
    /\ callback # <<>>
    /\ callback[1].finished
    /\ \E o \in Registered :
          /\ ~queues_[o].finished
          /\ queues_[o].queue # <<>>
          /\ Head(queues_[o].queue).time = callback[1].data.time

\* What one more pass of the loop body would do to the present state.
Again == Iteration(queues_, last_dispatched_time_, common_start_time_per_trajectory_)

\* C16: in the state a halted dispatch left (it returned on a blocker, or on
\* an empty collection), one more pass halts the same way: it pops and
\* erases nothing, keeps last_dispatched_time_ and the cache, and names the
\* blocker that is recorded.
C16_HaltedIsFixpoint ==
    outcome \in {"blocked", "empty"} =>
        /\ Again.kind = outcome
        /\ Again.popped = <<>>
        /\ Again.queues = queues_
        /\ Again.last = last_dispatched_time_
        /\ Again.cache = common_start_time_per_trajectory_
        /\ Again.kind = "blocked" => Again.key = <<blocker_>>

\* Dispatch halted on a candidate with a single item, in the pass that
\* cached the start time of its trajectory, and other items are waiting.
C16_Witness ==
    /\ outcome = "blocked"
    /\ resolved # <<>>
    /\ blocker_ \in Registered
    /\ Size(queues_[blocker_].queue) = 1
    /\ Queued(queues_) > 1

\* What a step left in the FIFO of `key`; an erased record holds nothing.
ItemsAfter(key) == IF key \in DOMAIN queues_' THEN queues_'[key].queue ELSE <<>>

\* The FIFOs whose content a step changed.
Changed == {key \in Registered : ItemsAfter(key) # queues_[key].queue}

\* What is left to do in a running call: the streams Flush has still to
\* finish, the items waiting, and 1 while Dispatch has not returned.
Measure(unfinished, q, at) ==
    <<Len(unfinished), Queued(q), IF at = "dispatch" THEN 1 ELSE 0>>

\* Lexicographic order on the measures.
Less(m, n) ==
    \/ m[1] < n[1]
    \/ m[1] = n[1] /\ m[2] < n[2]
    \/ m[1] = n[1] /\ m[2] = n[2] /\ m[3] < n[3]

\* C17: a pass of the Dispatch loop that does not end the loop takes exactly
\* one item off exactly one FIFO and adds none; and every step inside a call
\* (a pass of Dispatch, a turn of the loop of Flush) either ends the call or
\* lowers a measure that cannot fall forever, so every call ends.
C17_CallsTerminate ==
    [][/\ pc = "dispatch" /\ pc' = "dispatch" =>
            /\ Queued(queues_') = Queued(queues_) - 1
            /\ \E key \in Registered :
                  /\ Changed = {key}
                  /\ PoppedIn(key)
       /\ pc \in {"dispatch", "flush"} =>
            \/ pc' \in {"idle", "fatal"}
            \/ Less(Measure(unfinished_queues', queues_', pc'),
                    Measure(unfinished_queues, queues_, pc))]_vars

\* In a Flush, a pass has dropped or delivered an item and the loop goes on
\* with more than one item waiting.
C17_Witness ==
    /\ pc = "dispatch"
    /\ call.name = "Flush"
    /\ outcome \in {"dispatch", "drop"}
    /\ Queued(queues_) > 1

\* What the scan of the next pass of Dispatch ends with.
Selection == Scan(InKeyOrder(Registered), queues_, <<>>, last_dispatched_time_)

\* The scan selected a candidate: the pass goes on to GetCommonStartTime.
Selected == Selection.status = "end" /\ Selection.next # <<>>

\* The candidate falls in the last branch (lines 174-183): older than the
\* common start time of its trajectory, and not too short to decide.
ColdDeep ==
    LET key == Selection.next[1]
        queue == Selection.queues[key].queue
        cache == GetCommonStartTime(common_start_time_per_trajectory_,
                                    Selection.queues, key.trajectory_id)
    IN  /\ ~BeyondCommonStart(GetTime(Peek(queue)), cache[key.trajectory_id])
        /\ ~TooShortToDecide(queue)

\* C18: when a pass of Dispatch comes to select a candidate, every stream
\* the scan left registered holds an item, and if the candidate falls in the
\* last branch, an item is left behind the one popped.
C18_NoAbsentItemAtSelection ==
    pc = "dispatch" /\ Selected =>
        /\ \A key \in DOMAIN Selection.queues :
              Peek(Selection.queues[key].queue) # <<>>
        /\ ColdDeep =>
              Peek(Popped(Selection.queues, Selection.next[1])
                     [Selection.next[1]].queue) # <<>>

\* A pass has cached the start time of a trajectory from two of its streams
\* and dropped the candidate's front in the last branch.
C18_Witness ==
    /\ outcome = "drop"
    /\ resolved # <<>>
    /\ \E a, b \in Registered :
          /\ a # b
          /\ a.trajectory_id = resolved[1]
          /\ b.trajectory_id = resolved[1]

\* C19: inside Flush, the key whose MarkQueueAsFinished comes next is
\* registered and unfinished, and no Flush has ended in a CHECK of
\* MarkQueueAsFinished (a CHECK that fails in Dispatch leaves outcome
\* "fatal").
C19_FlushPassesChecks ==
    /\ pc = "flush" =>
          /\ unfinished_queues # <<>>
          /\ CanFinish(queues_, Head(unfinished_queues))
    /\ ~(call.name = "Flush" /\ pc = "fatal" /\ outcome # "fatal")

\* Inside Flush a Dispatch has run and halted, and the streams finished so
\* far have been erased: only the streams still to finish are registered.
C19_Witness ==
    /\ pc = "flush"
    /\ call.name = "Flush"
    /\ outcome = "blocked"
    /\ Len(unfinished_queues) = Cardinality(Registered)

\* The deliveries of the present record of `key` that were older than the
\* common start time of its trajectory.
Early(log, key) ==
    {i \in DOMAIN log :
        /\ key.trajectory_id \in DOMAIN common_start_time_per_trajectory_
        /\ log[i] < CommonStart(key)}

\* C20: with every stream pushed in order and none pushed after it was
\* finished, the sink of a stream record gets at most one item older than
\* the common start time of its trajectory.
C20_AtMostOneEarlyDelivery ==
    \A key \in QueueKey : Cardinality(Early(delivered[key], key)) <= 1

\* A stream record has delivered one item older than the common start time
\* and another such item has left its FIFO without being delivered.
C20_Witness ==
    \E key \in QueueKey :
        /\ Cardinality(Early(delivered[key], key)) = 1
        /\ Cardinality(Early(Left(key), key)) > 1

====
